---- MODULE Spec2Model ----
(***************************************************************************)
(* State-machine model of two parts of gRPC core:                          *)
(*   - ConnectivityStateTracker and the asynchronous watcher notifier      *)
(*     (src/core/lib/transport/connectivity_state.cc)                      *)
(*   - the SPIFFE channel/server security connectors                       *)
(*     (src/core/lib/security/security_connector/tls/                      *)
(*      spiffe_security_connector.cc)                                      *)
(***************************************************************************)
EXTENDS Integers, Sequences, FiniteSets, TLC

(* ---------------------------------------------------------------------- *)
(* Bounds of the model                                                     *)
(* ---------------------------------------------------------------------- *)
\* number of watcher objects that can be handed to the tracker
NumWatchers == 2
\* number of calls made on the tracker's interface (AddWatcher,
\* RemoveWatcher, SetState, destruction)
MaxOps == 4
\* number of add_handshakers calls made on a connector (they may overlap)
MaxAttempts == 3
\* number of check_peer calls made on a connector (they may overlap)
MaxChecks == 2

Watchers == 1..NumWatchers

(* ---------------------------------------------------------------------- *)
(* grpc_connectivity_state                                                 *)
(* ---------------------------------------------------------------------- *)
GRPC_CHANNEL_IDLE == "IDLE"
GRPC_CHANNEL_CONNECTING == "CONNECTING"
GRPC_CHANNEL_READY == "READY"
GRPC_CHANNEL_TRANSIENT_FAILURE == "TRANSIENT_FAILURE"
GRPC_CHANNEL_SHUTDOWN == "SHUTDOWN"

ConnectivityState ==
  { GRPC_CHANNEL_IDLE, GRPC_CHANNEL_CONNECTING, GRPC_CHANNEL_READY,
    GRPC_CHANNEL_TRANSIENT_FAILURE, GRPC_CHANNEL_SHUTDOWN }

VARIABLES
  \* --- ConnectivityStateTracker ---
  state_,       \* the tracker's atomic state_
  watchers_,    \* keys of the watchers_ map
  alive,        \* FALSE once the tracker's destructor has run
  combiner_,    \* per watcher object: was it built with a combiner?
  closures,     \* per watcher: Notifier closures scheduled and not yet run
  added,        \* watcher objects already handed to AddWatcher
  nops,         \* calls made on the tracker so far
  \* --- history of the tracker's watchers ---
  sched,        \* per watcher: states passed to Notify, in call order
  recv,         \* per watcher: states seen by OnConnectivityStateChange
  \* --- credentials options of a SPIFFE security connector ---
  side,                     \* "client": channel connector, "server": server connector
  credential_reload_config, \* options.credential_reload_config() != nullptr
  options_key_materials,    \* options.key_materials_config(): NULL or its pair list
  server_authorization_check_config,   \* configured? (client only)
  \* --- SpiffeChannelSecurityConnector / SpiffeServerSecurityConnector ---
  phase,                    \* "constructed", "ready", "failed" (creation returned
                            \* no connector), "aborted" (GPR_ASSERT failed in
                            \* ReplaceHandshakerFactory) or "crashed"
  key_materials_config_,    \* pem_key_cert_pair_list of the connector's store
  handshaker_factory_,      \* client_/server_handshaker_factory_: 0 is nullptr
  mu_,                      \* 0, or the add_handshakers call holding the lock
  pc,                       \* per add_handshakers call: where it stands
  handshakers,              \* per add_handshakers call: handshakers added to its manager
  creating_from,            \* per add_handshakers call: the factory pointer it
                            \* passed to create_handshaker (0: nullptr or none yet)
  n_init,                   \* handshaker factories built or attempted so far
  released,                 \* factories that have been unref'd
  n_reload,                 \* calls of the credential reload capability
  fetch_status,             \* status of the last TlsFetchKeyMaterials run
  last_reload,              \* what the reload capability did in that run
  reload_arg,               \* the life of the request object of that run
  \* --- client-side server authorization check ---
  check_arg_,               \* the connector's reusable check request
  on_peer_checked_,         \* the stored completion closure: 0 is unset
  pending_async,            \* asynchronous checks scheduled and not yet done
  n_checks,                 \* check_peer calls made so far
  n_authz,                  \* calls of the authorization check capability
  reached,                  \* check_peer calls that reached the check stage
  authz_request,            \* the request last handed to the capability, the
                            \* certificate of the peer of that call, and whether
                            \* some call began while a check was pending
  cb_log,                   \* per check_peer call: errors its closure was run with
  last_interp               \* the last interpretation of a check result

trackerVars ==
  << state_, watchers_, alive, combiner_, closures, added, nops, sched, recv >>

optionVars ==
  << side, credential_reload_config, options_key_materials,
     server_authorization_check_config >>

factoryVars ==
  << phase, key_materials_config_, handshaker_factory_, mu_, pc, handshakers,
     creating_from, n_init, released, n_reload, fetch_status, last_reload,
     reload_arg >>

checkVars ==
  << check_arg_, on_peer_checked_, pending_async, n_checks, n_authz, reached,
     authz_request, cb_log, last_interp >>

connectorVars == << optionVars, factoryVars, checkVars >>

vars == << trackerVars, connectorVars >>

(* ---------------------------------------------------------------------- *)
(* Helpers on sequences                                                    *)
(* ---------------------------------------------------------------------- *)
RemoveAt(s, i) == [ j \in 1..(Len(s) - 1) |-> IF j < i THEN s[j] ELSE s[j + 1] ]

IsPrefix(s, t) == Len(s) <= Len(t) /\ \A i \in 1..Len(s) : s[i] = t[i]

Count(s, x) == Cardinality({ i \in 1..Len(s) : s[i] = x })

(* ---------------------------------------------------------------------- *)
(* AsyncConnectivityStateWatcherInterface::Notifier                        *)
(* ---------------------------------------------------------------------- *)
\* Variant of Notifier that hands every closure to the ExecCtx, also when
\* the watcher has a combiner.
NotifierIgnoresCombiner(cm, w, state) ==
  [ state |-> state, via |-> "exec_ctx" ]

\* The closure the Notifier constructor schedules for watcher w: it
\* captures the state by value and is handed either to the watcher's
\* combiner or to the ExecCtx.
Notifier(cm, w, state) ==
  [ state |-> state,
    via   |-> IF cm[w] THEN "combiner" ELSE "exec_ctx" ]

\* AsyncConnectivityStateWatcherInterface::Notify for every watcher of S:
\* one new Notifier each.
Notify(cl, cm, S, state) ==
  [ w \in Watchers |->
      IF w \in S THEN Append(cl[w], Notifier(cm, w, state)) ELSE cl[w] ]

\* the history of Notify calls
Scheduled(sc, S, state) ==
  [ w \in Watchers |-> IF w \in S THEN Append(sc[w], state) ELSE sc[w] ]

\* Which scheduled closure may run next.  A combiner runs its closures one
\* at a time in the order they were handed to it; closures handed to an
\* ExecCtx run when the calling thread's ExecCtx is flushed, in no fixed
\* order relative to closures scheduled from other threads.
Runnable(w, i) ==
  /\ i \in 1..Len(closures[w])
  /\ closures[w][i].via = "combiner" =>
       \A j \in 1..(i - 1) : closures[w][j].via # "combiner"

\* Variant of SendNotification that reports the tracker's state at the time
\* of the delivery instead of the state the Notifier captured.
SendNotificationReadsTrackerState(w, i) ==
  /\ Runnable(w, i)
  /\ recv' = [recv EXCEPT ![w] = Append(@, state_)]
  /\ closures' = [closures EXCEPT ![w] = RemoveAt(@, i)]
  /\ UNCHANGED << state_, watchers_, alive, combiner_, added, nops, sched >>
  /\ UNCHANGED connectorVars

\* Notifier::SendNotification: deliver the captured state, delete self.
SendNotification(w, i) ==
  /\ Runnable(w, i)
  /\ recv' = [recv EXCEPT ![w] = Append(@, closures[w][i].state)]
  /\ closures' = [closures EXCEPT ![w] = RemoveAt(@, i)]
  /\ UNCHANGED << state_, watchers_, alive, combiner_, added, nops, sched >>
  /\ UNCHANGED connectorVars

(* ---------------------------------------------------------------------- *)
(* ConnectivityStateTracker                                                *)
(* ---------------------------------------------------------------------- *)
\* ~ConnectivityStateTracker
DestroyTracker ==
  /\ alive
  /\ nops < MaxOps
  /\ LET S == IF state_ = GRPC_CHANNEL_SHUTDOWN THEN {} ELSE watchers_ IN
       /\ closures' = Notify(closures, combiner_, S, GRPC_CHANNEL_SHUTDOWN)
       /\ sched' = Scheduled(sched, S, GRPC_CHANNEL_SHUTDOWN)
  /\ watchers_' = {}          \* the map is destroyed with the tracker
  /\ alive' = FALSE
  /\ nops' = nops + 1
  /\ UNCHANGED << state_, combiner_, added, recv >>
  /\ UNCHANGED connectorVars

\* Variant of AddWatcher without the initial_state != current_state test:
\* the catch-up notification is always sent.
AddWatcherAlwaysNotifies(initial_state, w, comb) ==
  /\ alive
  /\ nops < MaxOps
  /\ w \notin added
  /\ \A x \in Watchers : x < w => x \in added
  /\ added' = added \cup {w}
  /\ combiner_' = [combiner_ EXCEPT ![w] = comb]
  /\ closures' = Notify(closures, combiner_', {w}, state_)
  /\ sched' = Scheduled(sched, {w}, state_)
  /\ watchers_' = IF state_ # GRPC_CHANNEL_SHUTDOWN
                    THEN watchers_ \cup {w} ELSE watchers_
  /\ nops' = nops + 1
  /\ UNCHANGED << state_, alive, recv >>
  /\ UNCHANGED connectorVars

\* Variant of AddWatcher that takes the caller's initial_state for the
\* tracker's own state when the two differ.
AddWatcherAdoptsInitialState(initial_state, w, comb) ==
  /\ alive
  /\ nops < MaxOps
  /\ w \notin added
  /\ \A x \in Watchers : x < w => x \in added
  /\ added' = added \cup {w}
  /\ combiner_' = [combiner_ EXCEPT ![w] = comb]
  /\ LET S == IF initial_state # state_ THEN {w} ELSE {} IN
       /\ closures' = Notify(closures, combiner_', S, state_)
       /\ sched' = Scheduled(sched, S, state_)
  /\ state_' = initial_state
  /\ watchers_' = IF state_ # GRPC_CHANNEL_SHUTDOWN
                    THEN watchers_ \cup {w} ELSE watchers_
  /\ nops' = nops + 1
  /\ UNCHANGED << alive, recv >>
  /\ UNCHANGED connectorVars

\* Variant of AddWatcher that registers the watcher whatever the state is.
AddWatcherAlwaysInserts(initial_state, w, comb) ==
  /\ alive
  /\ nops < MaxOps
  /\ w \notin added
  /\ \A x \in Watchers : x < w => x \in added
  /\ added' = added \cup {w}
  /\ combiner_' = [combiner_ EXCEPT ![w] = comb]
  /\ LET S == IF initial_state # state_ THEN {w} ELSE {} IN
       /\ closures' = Notify(closures, combiner_', S, state_)
       /\ sched' = Scheduled(sched, S, state_)
  /\ watchers_' = watchers_ \cup {w}
  /\ nops' = nops + 1
  /\ UNCHANGED << state_, alive, recv >>
  /\ UNCHANGED connectorVars

\* ConnectivityStateTracker::AddWatcher, with a watcher object w that was
\* built with (comb = TRUE) or without a combiner.
AddWatcher(initial_state, w, comb) ==
  /\ alive
  /\ nops < MaxOps
  /\ w \notin added
  /\ \A x \in Watchers : x < w => x \in added   \* objects are numbered as they appear
  /\ added' = added \cup {w}
  /\ combiner_' = [combiner_ EXCEPT ![w] = comb]
  /\ LET S == IF initial_state # state_ THEN {w} ELSE {} IN
       /\ closures' = Notify(closures, combiner_', S, state_)
       /\ sched' = Scheduled(sched, S, state_)
  /\ watchers_' = IF state_ # GRPC_CHANNEL_SHUTDOWN
                    THEN watchers_ \cup {w} ELSE watchers_
  /\ nops' = nops + 1
  /\ UNCHANGED << state_, alive, recv >>
  /\ UNCHANGED connectorVars

\* Variant of RemoveWatcher that leaves the watcher registered.
RemoveWatcherKeepsRegistration(w) ==
  /\ alive
  /\ nops < MaxOps
  /\ w \in added
  /\ nops' = nops + 1
  /\ UNCHANGED << state_, watchers_, alive, combiner_, closures, added, sched, recv >>
  /\ UNCHANGED connectorVars

\* ConnectivityStateTracker::RemoveWatcher
RemoveWatcher(w) ==
  /\ alive
  /\ nops < MaxOps
  /\ w \in added
  /\ watchers_' = watchers_ \ {w}
  /\ nops' = nops + 1
  /\ UNCHANGED << state_, alive, combiner_, closures, added, sched, recv >>
  /\ UNCHANGED connectorVars

\* Variant of SetState without the early return for state == current_state.
SetStateNoEarlyReturn(state) ==
  /\ alive
  /\ nops < MaxOps
  /\ nops' = nops + 1
  /\ state_' = state
  /\ closures' = Notify(closures, combiner_, watchers_, state)
  /\ sched' = Scheduled(sched, watchers_, state)
  /\ watchers_' = IF state = GRPC_CHANNEL_SHUTDOWN THEN {} ELSE watchers_
  /\ UNCHANGED << alive, combiner_, added, recv >>
  /\ UNCHANGED connectorVars

\* Variant of SetState that does not clear the registry on SHUTDOWN.
SetStateNoClear(state) ==
  /\ alive
  /\ nops < MaxOps
  /\ nops' = nops + 1
  /\ IF state = state_
       THEN UNCHANGED << state_, watchers_, closures, sched >>
       ELSE /\ state_' = state
            /\ closures' = Notify(closures, combiner_, watchers_, state)
            /\ sched' = Scheduled(sched, watchers_, state)
            /\ watchers_' = watchers_
  /\ UNCHANGED << alive, combiner_, added, recv >>
  /\ UNCHANGED connectorVars

\* ConnectivityStateTracker::SetState
SetState(state) ==
  /\ alive
  /\ nops < MaxOps
  /\ nops' = nops + 1
  /\ IF state = state_
       THEN UNCHANGED << state_, watchers_, closures, sched >>
       ELSE /\ state_' = state
            /\ closures' = Notify(closures, combiner_, watchers_, state)
            /\ sched' = Scheduled(sched, watchers_, state)
            /\ watchers_' = IF state = GRPC_CHANNEL_SHUTDOWN THEN {} ELSE watchers_
  /\ UNCHANGED << alive, combiner_, added, recv >>
  /\ UNCHANGED connectorVars

(* ---------------------------------------------------------------------- *)
(* Specification of the tracker                                            *)
(* ---------------------------------------------------------------------- *)
\* a tracker as its constructor leaves it
TrackerConstructed ==
  /\ state_ = GRPC_CHANNEL_IDLE
  /\ watchers_ = {}
  /\ alive = TRUE
  /\ combiner_ = [ w \in Watchers |-> FALSE ]
  /\ closures = [ w \in Watchers |-> << >> ]
  /\ added = {}
  /\ nops = 0
  /\ sched = [ w \in Watchers |-> << >> ]
  /\ recv = [ w \in Watchers |-> << >> ]

NextTracker ==
  \/ \E s \in ConnectivityState : SetState(s)
  \/ \E s \in ConnectivityState, w \in Watchers, c \in BOOLEAN : AddWatcher(s, w, c)
  \/ \E w \in Watchers : RemoveWatcher(w)
  \/ DestroyTracker
  \/ \E w \in Watchers : \E i \in 1..Len(closures[w]) : SendNotification(w, i)

(* ====================================================================== *)
(* SPIFFE security connectors                                              *)
(* ====================================================================== *)
Attempts == 1..MaxAttempts
Checks == 1..MaxChecks

NULL == "NULL"

\* grpc_status_code values returned by TlsFetchKeyMaterials
GRPC_STATUS_OK == "OK"
GRPC_STATUS_CANCELLED == "CANCELLED"
GRPC_STATUS_UNKNOWN == "UNKNOWN"
GRPC_STATUS_FAILED_PRECONDITION == "FAILED_PRECONDITION"
GRPC_STATUS_UNIMPLEMENTED == "UNIMPLEMENTED"
GRPC_STATUS_INTERNAL == "INTERNAL"

\* grpc_ssl_certificate_config_reload_status
RELOAD_UNCHANGED == "UNCHANGED"
RELOAD_NEW == "NEW"
RELOAD_FAIL == "FAIL"

\* grpc_security_status
GRPC_SECURITY_OK == "SECURITY_OK"
GRPC_SECURITY_ERROR == "SECURITY_ERROR"

\* What one call of the credential reload capability does: it reports that
\* it will complete asynchronously, or completes at once with a status; a
\* capability that reports NEW has (populate) or has not stored new key
\* materials in the request's key materials config; it has set the
\* request's destroy_context hook or not.
ReloadResponses ==
  { [ async |-> r[1], status |-> r[2], populate |-> r[3], destroy_context |-> h ] :
      r \in { << TRUE,  RELOAD_UNCHANGED, FALSE >>,
              << FALSE, RELOAD_UNCHANGED, FALSE >>,
              << FALSE, RELOAD_FAIL,      FALSE >>,
              << FALSE, RELOAD_NEW,       TRUE >>,
              << FALSE, RELOAD_NEW,       FALSE >> },
      h \in BOOLEAN }

\* no capability was invoked
NoReload ==
  [ async |-> FALSE, status |-> NULL, populate |-> FALSE, destroy_context |-> FALSE ]

\* The life of the grpc_tls_credential_reload_arg of one TlsFetchKeyMaterials
\* run: how often it was created, deleted, and its destroy_context called.
\* No request is created when no capability is configured.
NoReloadArg == [ created |-> 0, deleted |-> 0, destroy_context_calls |-> 0 ]

\* The end of the capability branch of TlsFetchKeyMaterials, which every
\* path through the branch reaches: destroy_context is called if set and
\* the request is deleted.
ReloadArgReleased(resp) ==
  [ created |-> 1, deleted |-> 1,
    destroy_context_calls |-> IF resp.destroy_context THEN 1 ELSE 0 ]

\* grpc_tls_credential_reload_config::Schedule(arg): the key materials the
\* request's config holds after the call; version names the new content.
ReloadSchedule(km, resp, version) ==
  IF resp.populate THEN << version >> ELSE km

\* Variant of TlsFetchKeyMaterials without the check that a reload
\* capability or key materials are provisioned.
TlsFetchNoPrecondition(km, reload_configured, reload_status, resp, version) ==
  LET is_key_materials_empty == (km = << >>) IN
  IF reload_configured
    THEN LET km2 == ReloadSchedule(km, resp, version) IN
         IF resp.async
           THEN [ status |-> IF is_key_materials_empty
                               THEN GRPC_STATUS_UNIMPLEMENTED ELSE GRPC_STATUS_OK,
                  reload_status |-> reload_status, km |-> km2, invoked |-> TRUE,
                  arg |-> ReloadArgReleased(resp) ]
           ELSE [ status |-> IF resp.status = RELOAD_FAIL /\ is_key_materials_empty
                               THEN GRPC_STATUS_INTERNAL ELSE GRPC_STATUS_OK,
                  reload_status |-> resp.status, km |-> km2, invoked |-> TRUE,
                  arg |-> ReloadArgReleased(resp) ]
    ELSE [ status |-> GRPC_STATUS_OK,
           reload_status |-> reload_status, km |-> km, invoked |-> FALSE,
           arg |-> NoReloadArg ]

\* Variant of TlsFetchKeyMaterials in which a failed reload is an error
\* also when key materials are present.
TlsFetchFailIsAlwaysInternal(km, reload_configured, reload_status, resp, version) ==
  LET is_key_materials_empty == (km = << >>) IN
  IF ~reload_configured /\ is_key_materials_empty
    THEN [ status |-> GRPC_STATUS_FAILED_PRECONDITION,
           reload_status |-> reload_status, km |-> km, invoked |-> FALSE,
           arg |-> NoReloadArg ]
  ELSE IF reload_configured
    THEN LET km2 == ReloadSchedule(km, resp, version) IN
         IF resp.async
           THEN [ status |-> IF is_key_materials_empty
                               THEN GRPC_STATUS_UNIMPLEMENTED ELSE GRPC_STATUS_OK,
                  reload_status |-> reload_status, km |-> km2, invoked |-> TRUE,
                  arg |-> ReloadArgReleased(resp) ]
           ELSE [ status |-> IF resp.status = RELOAD_FAIL
                               THEN GRPC_STATUS_INTERNAL ELSE GRPC_STATUS_OK,
                  reload_status |-> resp.status, km |-> km2, invoked |-> TRUE,
                  arg |-> ReloadArgReleased(resp) ]
    ELSE [ status |-> GRPC_STATUS_OK,
           reload_status |-> reload_status, km |-> km, invoked |-> FALSE,
           arg |-> NoReloadArg ]

\* Variant of TlsFetchKeyMaterials that reports an asynchronous reload to
\* its caller as new key materials.
TlsFetchAsyncReportsNew(km, reload_configured, reload_status, resp, version) ==
  LET is_key_materials_empty == (km = << >>) IN
  IF ~reload_configured /\ is_key_materials_empty
    THEN [ status |-> GRPC_STATUS_FAILED_PRECONDITION,
           reload_status |-> reload_status, km |-> km, invoked |-> FALSE,
           arg |-> NoReloadArg ]
  ELSE IF reload_configured
    THEN LET km2 == ReloadSchedule(km, resp, version) IN
         IF resp.async
           THEN [ status |-> IF is_key_materials_empty
                               THEN GRPC_STATUS_UNIMPLEMENTED ELSE GRPC_STATUS_OK,
                  reload_status |-> RELOAD_NEW, km |-> km2, invoked |-> TRUE,
                  arg |-> ReloadArgReleased(resp) ]
           ELSE [ status |-> IF resp.status = RELOAD_FAIL /\ is_key_materials_empty
                               THEN GRPC_STATUS_INTERNAL ELSE GRPC_STATUS_OK,
                  reload_status |-> resp.status, km |-> km2, invoked |-> TRUE,
                  arg |-> ReloadArgReleased(resp) ]
    ELSE [ status |-> GRPC_STATUS_OK,
           reload_status |-> reload_status, km |-> km, invoked |-> FALSE,
           arg |-> NoReloadArg ]

\* Variant of TlsFetchKeyMaterials that returns as soon as the capability
\* has reported an asynchronous completion.
TlsFetchReturnsEarlyOnAsync(km, reload_configured, reload_status, resp, version) ==
  LET is_key_materials_empty == (km = << >>) IN
  IF ~reload_configured /\ is_key_materials_empty
    THEN [ status |-> GRPC_STATUS_FAILED_PRECONDITION,
           reload_status |-> reload_status, km |-> km, invoked |-> FALSE,
           arg |-> NoReloadArg ]
  ELSE IF reload_configured
    THEN LET km2 == ReloadSchedule(km, resp, version) IN
         IF resp.async
           THEN [ status |-> IF is_key_materials_empty
                               THEN GRPC_STATUS_UNIMPLEMENTED ELSE GRPC_STATUS_OK,
                  reload_status |-> reload_status, km |-> km2, invoked |-> TRUE,
                  arg |-> [ created |-> 1, deleted |-> 0,
                            destroy_context_calls |-> 0 ] ]
           ELSE [ status |-> IF resp.status = RELOAD_FAIL /\ is_key_materials_empty
                               THEN GRPC_STATUS_INTERNAL ELSE GRPC_STATUS_OK,
                  reload_status |-> resp.status, km |-> km2, invoked |-> TRUE,
                  arg |-> ReloadArgReleased(resp) ]
    ELSE [ status |-> GRPC_STATUS_OK,
           reload_status |-> reload_status, km |-> km, invoked |-> FALSE,
           arg |-> NoReloadArg ]

\* TlsFetchKeyMaterials(key_materials_config, options, &reload_status).
\* reload_status is the value the caller initialised the out-parameter
\* with.  The result holds the returned status, the out-parameter, the key
\* materials afterwards and whether the capability was invoked.
TlsFetchKeyMaterials(km, reload_configured, reload_status, resp, version) ==
  LET is_key_materials_empty == (km = << >>) IN
  IF ~reload_configured /\ is_key_materials_empty
    THEN [ status |-> GRPC_STATUS_FAILED_PRECONDITION,
           reload_status |-> reload_status, km |-> km, invoked |-> FALSE,
           arg |-> NoReloadArg ]
  ELSE IF reload_configured
    THEN LET km2 == ReloadSchedule(km, resp, version) IN
         IF resp.async
           THEN [ status |-> IF is_key_materials_empty
                               THEN GRPC_STATUS_UNIMPLEMENTED ELSE GRPC_STATUS_OK,
                  reload_status |-> reload_status, km |-> km2, invoked |-> TRUE,
                  arg |-> ReloadArgReleased(resp) ]
           ELSE [ status |-> IF resp.status = RELOAD_FAIL /\ is_key_materials_empty
                               THEN GRPC_STATUS_INTERNAL ELSE GRPC_STATUS_OK,
                  reload_status |-> resp.status, km |-> km2, invoked |-> TRUE,
                  arg |-> ReloadArgReleased(resp) ]
    ELSE [ status |-> GRPC_STATUS_OK,
           reload_status |-> reload_status, km |-> km, invoked |-> FALSE,
           arg |-> NoReloadArg ]

\* grpc_ssl_tsi_client/server_handshaker_factory_init: the factory pointer
\* afterwards.  A failed construction leaves the pointer null.
HandshakerFactoryInit(build_ok, id) == IF build_ok THEN id ELSE 0

\* Variant of the client's ReplaceHandshakerFactory that is left with the
\* pointer to the old factory when the construction fails.
ClientReplaceKeepsOldFactoryOnFailure(factory, rel, km, n, build_ok) ==
  LET rel2 == IF factory # 0 THEN rel \cup {factory} ELSE rel IN
  IF km = << >>
    THEN [ aborted |-> TRUE, factory |-> factory, released |-> rel2,
           n_init |-> n, status |-> GRPC_SECURITY_ERROR ]
    ELSE [ aborted |-> FALSE,
           factory |-> IF build_ok THEN n + 1 ELSE factory,
           released |-> rel2, n_init |-> n + 1,
           status |-> IF build_ok THEN GRPC_SECURITY_OK ELSE GRPC_SECURITY_ERROR ]

\* SpiffeChannelSecurityConnector::ReplaceHandshakerFactory: unref the old
\* factory, assert that the key materials hold a pair, build a new factory.
ClientReplaceHandshakerFactory(factory, rel, km, n, build_ok) ==
  LET rel2 == IF factory # 0 THEN rel \cup {factory} ELSE rel IN
  IF km = << >>
    THEN [ aborted |-> TRUE, factory |-> factory, released |-> rel2,
           n_init |-> n, status |-> GRPC_SECURITY_ERROR ]
    ELSE [ aborted |-> FALSE,
           factory |-> HandshakerFactoryInit(build_ok, n + 1),
           released |-> rel2, n_init |-> n + 1,
           status |-> IF build_ok THEN GRPC_SECURITY_OK ELSE GRPC_SECURITY_ERROR ]

\* SpiffeServerSecurityConnector::ReplaceHandshakerFactory
ServerReplaceHandshakerFactory(factory, rel, km, n, build_ok) ==
  LET rel2 == IF factory # 0 THEN rel \cup {factory} ELSE rel IN
  IF km = << >>
    THEN [ aborted |-> TRUE, factory |-> factory, released |-> rel2,
           n_init |-> n, status |-> GRPC_SECURITY_ERROR ]
    ELSE [ aborted |-> FALSE,
           factory |-> HandshakerFactoryInit(build_ok, n + 1),
           released |-> rel2, n_init |-> n + 1,
           status |-> IF build_ok THEN GRPC_SECURITY_OK ELSE GRPC_SECURITY_ERROR ]

\* the connector's fields after ReplaceHandshakerFactory returned r
AfterReplace(r) ==
  /\ handshaker_factory_' = r.factory
  /\ released' = r.released
  /\ n_init' = r.n_init

\* SpiffeClientSecurityConnector::InitializeHandshakerFactory, called by
\* CreateSpiffeClientSecurityConnector on the connector it has just built:
\* copy the key materials of the options, run the reload protocol, build
\* the first factory.  The connector is returned to the caller ("ready")
\* only when this returns GRPC_SECURITY_OK.
ClientInitializeHandshakerFactory(resp, build_ok) ==
  /\ side = "client"
  /\ phase = "constructed"
  /\ mu_ = 0
  /\ LET km0 == IF ~options_key_materials.is_null
                  THEN options_key_materials.pairs ELSE key_materials_config_
         f == TlsFetchKeyMaterials(km0, credential_reload_config,
                                   RELOAD_UNCHANGED, resp, n_reload + 1)
     IN
       /\ fetch_status' = f.status
       /\ last_reload' = IF f.invoked THEN resp ELSE NoReload
       /\ reload_arg' = f.arg
       /\ key_materials_config_' = f.km
       /\ n_reload' = IF f.invoked THEN n_reload + 1 ELSE n_reload
       /\ IF f.status # GRPC_STATUS_OK
            THEN /\ phase' = "failed"
                 /\ UNCHANGED << handshaker_factory_, released, n_init >>
            ELSE LET r == ClientReplaceHandshakerFactory(
                            handshaker_factory_, released, f.km, n_init, build_ok) IN
                 /\ AfterReplace(r)
                 /\ phase' = IF r.aborted THEN "aborted"
                             ELSE IF r.status = GRPC_SECURITY_OK THEN "ready"
                             ELSE "failed"
  /\ UNCHANGED << mu_, pc, handshakers, creating_from >>
  /\ UNCHANGED << optionVars, checkVars, trackerVars >>

\* SpiffeServerSecurityConnector::InitializeHandshakerFactory, called by
\* CreateSpiffeServerSecurityConnector on the connector it has just built:
\* copy the key materials of the options, run the reload protocol, build
\* the first factory.  The connector is returned to the caller ("ready")
\* only when this returns GRPC_SECURITY_OK.
ServerInitializeHandshakerFactory(resp, build_ok) ==
  /\ side = "server"
  /\ phase = "constructed"
  /\ mu_ = 0
  /\ LET km0 == IF ~options_key_materials.is_null
                  THEN options_key_materials.pairs ELSE key_materials_config_
         f == TlsFetchKeyMaterials(km0, credential_reload_config,
                                   RELOAD_UNCHANGED, resp, n_reload + 1)
     IN
       /\ fetch_status' = f.status
       /\ last_reload' = IF f.invoked THEN resp ELSE NoReload
       /\ reload_arg' = f.arg
       /\ key_materials_config_' = f.km
       /\ n_reload' = IF f.invoked THEN n_reload + 1 ELSE n_reload
       /\ IF f.status # GRPC_STATUS_OK
            THEN /\ phase' = "failed"
                 /\ UNCHANGED << handshaker_factory_, released, n_init >>
            ELSE LET r == ServerReplaceHandshakerFactory(
                            handshaker_factory_, released, f.km, n_init, build_ok) IN
                 /\ AfterReplace(r)
                 /\ phase' = IF r.aborted THEN "aborted"
                             ELSE IF r.status = GRPC_SECURITY_OK THEN "ready"
                             ELSE "failed"
  /\ UNCHANGED << mu_, pc, handshakers, creating_from >>
  /\ UNCHANGED << optionVars, checkVars, trackerVars >>

\* Variant of the entry into RefreshHandshakerFactory that does not wait
\* for mu_ to be free.
AddHandshakersWithoutLock(a) ==
  /\ phase = "ready"
  /\ pc[a] = "new"
  /\ \A b \in Attempts : b < a => pc[b] # "new"
  /\ mu_' = a
  /\ pc' = [pc EXCEPT ![a] = "refresh"]
  /\ UNCHANGED << phase, key_materials_config_, handshaker_factory_, handshakers,
                  creating_from, n_init, released, n_reload, fetch_status,
                  last_reload, reload_arg >>
  /\ UNCHANGED << optionVars, checkVars, trackerVars >>

\* add_handshakers call a enters RefreshHandshakerFactory and takes mu_
\* (grpc_core::MutexLock lock(&mu_)).
AddHandshakersLock(a) ==
  /\ phase = "ready"
  /\ pc[a] = "new"
  /\ \A b \in Attempts : b < a => pc[b] # "new"   \* calls are numbered as they start
  /\ mu_ = 0
  /\ mu_' = a
  /\ pc' = [pc EXCEPT ![a] = "refresh"]
  /\ UNCHANGED << phase, key_materials_config_, handshaker_factory_, handshakers,
                  creating_from, n_init, released, n_reload, fetch_status,
                  last_reload, reload_arg >>
  /\ UNCHANGED << optionVars, checkVars, trackerVars >>

\* SpiffeClientSecurityConnector::RefreshHandshakerFactory, its body run by
\* add_handshakers call a under mu_; the lock is released on return.  A
\* return of GRPC_SECURITY_OK lets add_handshakers go on to create a
\* handshaker; otherwise add_handshakers returns.
ClientRefreshHandshakerFactory(a, resp, build_ok) ==
  /\ side = "client"
  /\ phase = "ready"
  /\ pc[a] = "refresh"
  /\ mu_ = a
  /\ LET f == TlsFetchKeyMaterials(key_materials_config_, credential_reload_config,
                                   RELOAD_UNCHANGED, resp, n_reload + 1)
     IN
       /\ fetch_status' = f.status
       /\ last_reload' = IF f.invoked THEN resp ELSE NoReload
       /\ reload_arg' = f.arg
       /\ key_materials_config_' = f.km
       /\ n_reload' = IF f.invoked THEN n_reload + 1 ELSE n_reload
       /\ IF f.status # GRPC_STATUS_OK
            THEN /\ pc' = [pc EXCEPT ![a] = "done"]
                 /\ mu_' = 0
                 /\ UNCHANGED << phase, handshaker_factory_, released, n_init >>
            ELSE IF f.reload_status # RELOAD_NEW
              THEN /\ pc' = [pc EXCEPT ![a] = "create"]
                   /\ mu_' = 0
                   /\ UNCHANGED << phase, handshaker_factory_, released, n_init >>
              ELSE LET r == ClientReplaceHandshakerFactory(
                              handshaker_factory_, released, f.km, n_init, build_ok) IN
                   /\ AfterReplace(r)
                   /\ phase' = IF r.aborted THEN "aborted" ELSE phase
                   /\ mu_' = IF r.aborted THEN mu_ ELSE 0
                   /\ pc' = [pc EXCEPT ![a] =
                               IF r.aborted THEN "refresh"
                               ELSE IF r.status = GRPC_SECURITY_OK THEN "create"
                               ELSE "done"]
  /\ UNCHANGED << handshakers, creating_from >>
  /\ UNCHANGED << optionVars, checkVars, trackerVars >>

\* Variant of the server's RefreshHandshakerFactory that reuses the factory
\* only when the reload status is UNCHANGED.
ServerRefreshRebuildsUnlessUnchanged(a, resp, build_ok) ==
  /\ side = "server"
  /\ phase = "ready"
  /\ pc[a] = "refresh"
  /\ mu_ = a
  /\ LET f == TlsFetchKeyMaterials(key_materials_config_, credential_reload_config,
                                   RELOAD_UNCHANGED, resp, n_reload + 1)
     IN
       /\ fetch_status' = f.status
       /\ last_reload' = IF f.invoked THEN resp ELSE NoReload
       /\ reload_arg' = f.arg
       /\ key_materials_config_' = f.km
       /\ n_reload' = IF f.invoked THEN n_reload + 1 ELSE n_reload
       /\ IF f.status # GRPC_STATUS_OK
            THEN /\ pc' = [pc EXCEPT ![a] = "done"]
                 /\ mu_' = 0
                 /\ UNCHANGED << phase, handshaker_factory_, released, n_init >>
            ELSE IF f.reload_status = RELOAD_UNCHANGED
              THEN /\ pc' = [pc EXCEPT ![a] = "create"]
                   /\ mu_' = 0
                   /\ UNCHANGED << phase, handshaker_factory_, released, n_init >>
              ELSE LET r == ServerReplaceHandshakerFactory(
                              handshaker_factory_, released, f.km, n_init, build_ok) IN
                   /\ AfterReplace(r)
                   /\ phase' = IF r.aborted THEN "aborted" ELSE phase
                   /\ mu_' = IF r.aborted THEN mu_ ELSE 0
                   /\ pc' = [pc EXCEPT ![a] =
                               IF r.aborted THEN "refresh"
                               ELSE IF r.status = GRPC_SECURITY_OK THEN "create"
                               ELSE "done"]
  /\ UNCHANGED << handshakers, creating_from >>
  /\ UNCHANGED << optionVars, checkVars, trackerVars >>

\* SpiffeServerSecurityConnector::RefreshHandshakerFactory, its body run by
\* add_handshakers call a under mu_; the lock is released on return.  A
\* return of GRPC_SECURITY_OK lets add_handshakers go on to create a
\* handshaker; otherwise add_handshakers returns.
ServerRefreshHandshakerFactory(a, resp, build_ok) ==
  /\ side = "server"
  /\ phase = "ready"
  /\ pc[a] = "refresh"
  /\ mu_ = a
  /\ LET f == TlsFetchKeyMaterials(key_materials_config_, credential_reload_config,
                                   RELOAD_UNCHANGED, resp, n_reload + 1)
     IN
       /\ fetch_status' = f.status
       /\ last_reload' = IF f.invoked THEN resp ELSE NoReload
       /\ reload_arg' = f.arg
       /\ key_materials_config_' = f.km
       /\ n_reload' = IF f.invoked THEN n_reload + 1 ELSE n_reload
       /\ IF f.status # GRPC_STATUS_OK
            THEN /\ pc' = [pc EXCEPT ![a] = "done"]
                 /\ mu_' = 0
                 /\ UNCHANGED << phase, handshaker_factory_, released, n_init >>
            ELSE IF f.reload_status # RELOAD_NEW
              THEN /\ pc' = [pc EXCEPT ![a] = "create"]
                   /\ mu_' = 0
                   /\ UNCHANGED << phase, handshaker_factory_, released, n_init >>
              ELSE LET r == ServerReplaceHandshakerFactory(
                              handshaker_factory_, released, f.km, n_init, build_ok) IN
                   /\ AfterReplace(r)
                   /\ phase' = IF r.aborted THEN "aborted" ELSE phase
                   /\ mu_' = IF r.aborted THEN mu_ ELSE 0
                   /\ pc' = [pc EXCEPT ![a] =
                               IF r.aborted THEN "refresh"
                               ELSE IF r.status = GRPC_SECURITY_OK THEN "create"
                               ELSE "done"]
  /\ UNCHANGED << handshakers, creating_from >>
  /\ UNCHANGED << optionVars, checkVars, trackerVars >>

\* tsi_ssl_client/server_handshaker_factory_create_handshaker on the
\* connector's factory pointer: no handshaker can be created without a
\* factory; with one, the creation succeeds or fails (create_ok).
CreateHandshakerResult(factory, create_ok) == factory # 0 /\ create_ok

\* How a create_handshaker call may end.  "crash" stands for what a call
\* on a factory that has been released meanwhile may do besides returning.
CreateOutcomes == { "ok", "error", "crash" }

\* SpiffeChannelSecurityConnector::add_handshakers, after
\* RefreshHandshakerFactory returned GRPC_SECURITY_OK and outside the lock:
\* read client_handshaker_factory_ and enter create_handshaker with it.
ClientCreateHandshaker(a) ==
  /\ side = "client"
  /\ phase = "ready"
  /\ pc[a] = "create"
  /\ pc' = [pc EXCEPT ![a] = "creating"]
  /\ creating_from' = [creating_from EXCEPT ![a] = handshaker_factory_]
  /\ UNCHANGED << phase, key_materials_config_, handshaker_factory_, mu_,
                  handshakers, n_init, released, n_reload, fetch_status,
                  last_reload, reload_arg >>
  /\ UNCHANGED << optionVars, checkVars, trackerVars >>

\* SpiffeServerSecurityConnector::add_handshakers, after
\* RefreshHandshakerFactory returned GRPC_SECURITY_OK and outside the lock:
\* read server_handshaker_factory_ and enter create_handshaker with it.
ServerCreateHandshaker(a) ==
  /\ side = "server"
  /\ phase = "ready"
  /\ pc[a] = "create"
  /\ pc' = [pc EXCEPT ![a] = "creating"]
  /\ creating_from' = [creating_from EXCEPT ![a] = handshaker_factory_]
  /\ UNCHANGED << phase, key_materials_config_, handshaker_factory_, mu_,
                  handshakers, n_init, released, n_reload, fetch_status,
                  last_reload, reload_arg >>
  /\ UNCHANGED << optionVars, checkVars, trackerVars >>

\* The rest of SpiffeChannelSecurityConnector::add_handshakers:
\* create_handshaker returns and, if it returned TSI_OK, the handshaker is
\* added to the call's handshake manager.
ClientAddHandshakers(a, outcome) ==
  /\ side = "client"
  /\ phase = "ready"
  /\ pc[a] = "creating"
  /\ outcome = "crash" => creating_from[a] \in released
  /\ pc' = [pc EXCEPT ![a] = "done"]
  /\ phase' = IF outcome = "crash" THEN "crashed" ELSE phase
  /\ handshakers' = [handshakers EXCEPT ![a] =
                       IF CreateHandshakerResult(creating_from[a], outcome = "ok")
                         THEN @ + 1 ELSE @]
  /\ creating_from' = [creating_from EXCEPT ![a] = 0]   \* the call has returned
  /\ UNCHANGED << key_materials_config_, handshaker_factory_, mu_,
                  n_init, released, n_reload, fetch_status, last_reload,
                  reload_arg >>
  /\ UNCHANGED << optionVars, checkVars, trackerVars >>

\* Variant of the server's add_handshakers that adds a handshaker to the
\* manager whatever create_handshaker returned.
ServerAddHandshakersIgnoresResult(a, outcome) ==
  /\ side = "server"
  /\ phase = "ready"
  /\ pc[a] = "creating"
  /\ outcome = "crash" => creating_from[a] \in released
  /\ pc' = [pc EXCEPT ![a] = "done"]
  /\ phase' = IF outcome = "crash" THEN "crashed" ELSE phase
  /\ handshakers' = [handshakers EXCEPT ![a] = @ + 1]
  /\ creating_from' = [creating_from EXCEPT ![a] = 0]
  /\ UNCHANGED << key_materials_config_, handshaker_factory_, mu_,
                  n_init, released, n_reload, fetch_status, last_reload,
                  reload_arg >>
  /\ UNCHANGED << optionVars, checkVars, trackerVars >>

\* The rest of SpiffeServerSecurityConnector::add_handshakers:
\* create_handshaker returns and, if it returned TSI_OK, the handshaker is
\* added to the call's handshake manager.
ServerAddHandshakers(a, outcome) ==
  /\ side = "server"
  /\ phase = "ready"
  /\ pc[a] = "creating"
  /\ outcome = "crash" => creating_from[a] \in released
  /\ pc' = [pc EXCEPT ![a] = "done"]
  /\ phase' = IF outcome = "crash" THEN "crashed" ELSE phase
  /\ handshakers' = [handshakers EXCEPT ![a] =
                       IF CreateHandshakerResult(creating_from[a], outcome = "ok")
                         THEN @ + 1 ELSE @]
  /\ creating_from' = [creating_from EXCEPT ![a] = 0]   \* the call has returned
  /\ UNCHANGED << key_materials_config_, handshaker_factory_, mu_,
                  n_init, released, n_reload, fetch_status, last_reload,
                  reload_arg >>
  /\ UNCHANGED << optionVars, checkVars, trackerVars >>

(* ---------------------------------------------------------------------- *)
(* Peer check and server authorization check                               *)
(* ---------------------------------------------------------------------- *)
\* PEM certificates a peer may present (TSI_X509_PEM_CERT_PROPERTY)
PemCerts == { "certA", "certB" }

\* the name the client connector checks the peer against
\* (overridden_target_name_ if set, else target_name_)
TargetName == "target_name"

\* grpc_status_code values an authorization check may end with
AuthzStatuses ==
  { GRPC_STATUS_OK, GRPC_STATUS_CANCELLED, GRPC_STATUS_UNKNOWN, GRPC_STATUS_INTERNAL }

\* the result a capability stores in the request: status, success, error_details
AuthzResults ==
  [ status : AuthzStatuses, success : BOOLEAN, error_details : { NULL, "denied" } ]

\* grpc_error values handed to the completion closure
GRPC_ERROR_NONE == [ kind |-> "NONE", details |-> NULL ]
AlpnError == [ kind |-> "ALPN", details |-> NULL ]
MissingPemError == [ kind |-> "MISSING_PEM_CERT", details |-> NULL ]

\* Variant of ProcessServerAuthorizationCheckResult that does not look at
\* arg->success when the status is OK.
ProcessIgnoresSuccess(arg) ==
  IF arg.status = GRPC_STATUS_CANCELLED
    THEN [ kind |-> "CANCELLED", details |-> arg.error_details ]
  ELSE IF arg.status = GRPC_STATUS_OK
    THEN GRPC_ERROR_NONE
  ELSE [ kind |-> "DID_NOT_FINISH", details |-> arg.error_details ]

\* SpiffeChannelSecurityConnector::ProcessServerAuthorizationCheckResult
ProcessServerAuthorizationCheckResult(arg) ==
  IF arg.status = GRPC_STATUS_CANCELLED
    THEN [ kind |-> "CANCELLED", details |-> arg.error_details ]
  ELSE IF arg.status = GRPC_STATUS_OK
    THEN IF ~arg.success
           THEN [ kind |-> "FAILED", details |-> arg.error_details ]
           ELSE GRPC_ERROR_NONE
  ELSE [ kind |-> "DID_NOT_FINISH", details |-> arg.error_details ]

\* SpiffeChannelSecurityConnector::ServerAuthorizationCheckArgCreate
ServerAuthorizationCheckArgCreate ==
  [ peer_cert |-> NULL, target_name |-> NULL, status |-> GRPC_STATUS_OK,
    success |-> FALSE, error_details |-> NULL ]

\* grpc_core::ExecCtx::Run(DEBUG_LOCATION, closure, error): the completion
\* closure of check_peer call c is run with error.
RunClosure(log, c, error) == [log EXCEPT ![c] = Append(@, error)]

\* Variant of the client's check_peer that hands the request to the
\* authorization check capability also when the peer has no PEM certificate.
ClientCheckPeerSchedulesWithoutPem(c, alpn_ok, pem, async, result) ==
  /\ side = "client"
  /\ phase = "ready"
  /\ c = n_checks + 1
  /\ c \in Checks
  /\ n_checks' = c
  /\ IF ~alpn_ok
       THEN /\ cb_log' = RunClosure(cb_log, c, AlpnError)
            /\ UNCHANGED << check_arg_, on_peer_checked_, pending_async, n_authz,
                            reached, authz_request, last_interp >>
     ELSE IF ~server_authorization_check_config
       THEN /\ cb_log' = RunClosure(cb_log, c, GRPC_ERROR_NONE)
            /\ UNCHANGED << check_arg_, on_peer_checked_, pending_async, n_authz,
                            reached, authz_request, last_interp >>
     ELSE LET arg1 == [check_arg_ EXCEPT
                         !.peer_cert = IF @ = NULL THEN pem ELSE @,
                         !.target_name = IF @ = NULL THEN TargetName ELSE @]
          IN
            /\ on_peer_checked_' = c
            /\ n_authz' = n_authz + 1
            /\ reached' = reached \cup {c}
            /\ authz_request' =
                 [ scheduled |-> TRUE,
                   peer_cert |-> arg1.peer_cert,
                   target_name |-> arg1.target_name,
                   peer_pem |-> pem,
                   overlapping |-> authz_request.overlapping \/ pending_async > 0 ]
            /\ IF async
                 THEN /\ check_arg_' = arg1
                      /\ pending_async' = pending_async + 1
                      /\ UNCHANGED << cb_log, last_interp >>
                 ELSE LET arg2 == [arg1 EXCEPT
                                     !.status = result.status,
                                     !.success = result.success,
                                     !.error_details = result.error_details]
                          error == ProcessServerAuthorizationCheckResult(arg2)
                      IN
                        /\ check_arg_' = arg2
                        /\ cb_log' = RunClosure(cb_log, c, error)
                        /\ last_interp' = [ path |-> "sync", status |-> arg2.status,
                                            success |-> arg2.success,
                                            error_details |-> arg2.error_details,
                                            error |-> error ]
                        /\ UNCHANGED pending_async
  /\ UNCHANGED << optionVars, factoryVars, trackerVars >>

\* Variant of the client's check_peer that stores the completion closure
\* in on_peer_checked_ before it looks at the ALPN result.
ClientCheckPeerStoresClosureFirst(c, alpn_ok, pem, async, result) ==
  /\ side = "client"
  /\ phase = "ready"
  /\ c = n_checks + 1
  /\ c \in Checks
  /\ n_checks' = c
  /\ IF ~alpn_ok
       THEN /\ cb_log' = RunClosure(cb_log, c, AlpnError)
            /\ on_peer_checked_' = c
            /\ UNCHANGED << check_arg_, pending_async, n_authz,
                            reached, authz_request, last_interp >>
     ELSE IF ~server_authorization_check_config
       THEN /\ cb_log' = RunClosure(cb_log, c, GRPC_ERROR_NONE)
            /\ UNCHANGED << check_arg_, on_peer_checked_, pending_async, n_authz,
                            reached, authz_request, last_interp >>
     ELSE IF pem = NULL
       THEN /\ cb_log' = RunClosure(cb_log, c, MissingPemError)
            /\ UNCHANGED << check_arg_, on_peer_checked_, pending_async, n_authz,
                            reached, authz_request, last_interp >>
     ELSE LET arg1 == [check_arg_ EXCEPT
                         !.peer_cert = IF @ = NULL THEN pem ELSE @,
                         !.target_name = IF @ = NULL THEN TargetName ELSE @]
          IN
            /\ on_peer_checked_' = c
            /\ n_authz' = n_authz + 1
            /\ reached' = reached \cup {c}
            /\ authz_request' =
                 [ scheduled |-> TRUE,
                   peer_cert |-> arg1.peer_cert,
                   target_name |-> arg1.target_name,
                   peer_pem |-> pem,
                   overlapping |-> authz_request.overlapping \/ pending_async > 0 ]
            /\ IF async
                 THEN /\ check_arg_' = arg1
                      /\ pending_async' = pending_async + 1
                      /\ UNCHANGED << cb_log, last_interp >>
                 ELSE LET arg2 == [arg1 EXCEPT
                                     !.status = result.status,
                                     !.success = result.success,
                                     !.error_details = result.error_details]
                          error == ProcessServerAuthorizationCheckResult(arg2)
                      IN
                        /\ check_arg_' = arg2
                        /\ cb_log' = RunClosure(cb_log, c, error)
                        /\ last_interp' = [ path |-> "sync", status |-> arg2.status,
                                            success |-> arg2.success,
                                            error_details |-> arg2.error_details,
                                            error |-> error ]
                        /\ UNCHANGED pending_async
  /\ UNCHANGED << optionVars, factoryVars, trackerVars >>

\* Variant of the client's check_peer that takes mu_ when the check goes
\* asynchronous and keeps it until the check completes.
ClientCheckPeerHoldsLock(c, alpn_ok, pem, async, result) ==
  /\ side = "client"
  /\ phase = "ready"
  /\ c = n_checks + 1
  /\ c \in Checks
  /\ n_checks' = c
  /\ IF ~alpn_ok
       THEN /\ cb_log' = RunClosure(cb_log, c, AlpnError)
            /\ UNCHANGED << check_arg_, on_peer_checked_, pending_async, n_authz,
                            reached, authz_request, last_interp >>
     ELSE IF ~server_authorization_check_config
       THEN /\ cb_log' = RunClosure(cb_log, c, GRPC_ERROR_NONE)
            /\ UNCHANGED << check_arg_, on_peer_checked_, pending_async, n_authz,
                            reached, authz_request, last_interp >>
     ELSE IF pem = NULL
       THEN /\ cb_log' = RunClosure(cb_log, c, MissingPemError)
            /\ UNCHANGED << check_arg_, on_peer_checked_, pending_async, n_authz,
                            reached, authz_request, last_interp >>
     ELSE LET arg1 == [check_arg_ EXCEPT
                         !.peer_cert = IF @ = NULL THEN pem ELSE @,
                         !.target_name = IF @ = NULL THEN TargetName ELSE @]
          IN
            /\ on_peer_checked_' = c
            /\ n_authz' = n_authz + 1
            /\ reached' = reached \cup {c}
            /\ authz_request' =
                 [ scheduled |-> TRUE,
                   peer_cert |-> arg1.peer_cert,
                   target_name |-> arg1.target_name,
                   peer_pem |-> pem,
                   overlapping |-> authz_request.overlapping \/ pending_async > 0 ]
            /\ IF async
                 THEN /\ check_arg_' = arg1
                      /\ pending_async' = pending_async + 1
                      /\ UNCHANGED << cb_log, last_interp >>
                 ELSE LET arg2 == [arg1 EXCEPT
                                     !.status = result.status,
                                     !.success = result.success,
                                     !.error_details = result.error_details]
                          error == ProcessServerAuthorizationCheckResult(arg2)
                      IN
                        /\ check_arg_' = arg2
                        /\ cb_log' = RunClosure(cb_log, c, error)
                        /\ last_interp' = [ path |-> "sync", status |-> arg2.status,
                                            success |-> arg2.success,
                                            error_details |-> arg2.error_details,
                                            error |-> error ]
                        /\ UNCHANGED pending_async
  /\ LET goes_async == /\ alpn_ok /\ server_authorization_check_config
                        /\ pem # NULL /\ async
     IN /\ goes_async => mu_ = 0
        /\ mu_' = IF goes_async THEN MaxAttempts + 1 ELSE mu_
  /\ UNCHANGED << phase, key_materials_config_, handshaker_factory_, pc,
                  handshakers, creating_from, n_init, released, n_reload,
                  fetch_status, last_reload, reload_arg >>
  /\ UNCHANGED << optionVars, trackerVars >>

\* SpiffeChannelSecurityConnector::check_peer, call c, on a peer that
\* passes the ALPN check or not (alpn_ok) and presents the PEM certificate
\* pem (NULL: the property is missing).  When the authorization check
\* capability is invoked it either reports that it will complete
\* asynchronously (async) or stores result in the request and returns.
ClientCheckPeer(c, alpn_ok, pem, async, result) ==
  /\ side = "client"
  /\ phase = "ready"
  /\ c = n_checks + 1
  /\ c \in Checks
  /\ n_checks' = c
  /\ IF ~alpn_ok
       THEN /\ cb_log' = RunClosure(cb_log, c, AlpnError)
            /\ UNCHANGED << check_arg_, on_peer_checked_, pending_async, n_authz,
                            reached, authz_request, last_interp >>
     ELSE IF ~server_authorization_check_config
       THEN /\ cb_log' = RunClosure(cb_log, c, GRPC_ERROR_NONE)
            /\ UNCHANGED << check_arg_, on_peer_checked_, pending_async, n_authz,
                            reached, authz_request, last_interp >>
     ELSE IF pem = NULL
       THEN /\ cb_log' = RunClosure(cb_log, c, MissingPemError)
            /\ UNCHANGED << check_arg_, on_peer_checked_, pending_async, n_authz,
                            reached, authz_request, last_interp >>
     ELSE LET arg1 == [check_arg_ EXCEPT
                         !.peer_cert = IF @ = NULL THEN pem ELSE @,
                         !.target_name = IF @ = NULL THEN TargetName ELSE @]
          IN
            /\ on_peer_checked_' = c
            /\ n_authz' = n_authz + 1
            /\ reached' = reached \cup {c}
            /\ authz_request' =
                 [ scheduled |-> TRUE,
                   peer_cert |-> arg1.peer_cert,
                   target_name |-> arg1.target_name,
                   peer_pem |-> pem,
                   overlapping |-> authz_request.overlapping \/ pending_async > 0 ]
            /\ IF async
                 THEN /\ check_arg_' = arg1
                      /\ pending_async' = pending_async + 1
                      /\ UNCHANGED << cb_log, last_interp >>
                 ELSE LET arg2 == [arg1 EXCEPT
                                     !.status = result.status,
                                     !.success = result.success,
                                     !.error_details = result.error_details]
                          error == ProcessServerAuthorizationCheckResult(arg2)
                      IN
                        /\ check_arg_' = arg2
                        /\ cb_log' = RunClosure(cb_log, c, error)
                        /\ last_interp' = [ path |-> "sync", status |-> arg2.status,
                                            success |-> arg2.success,
                                            error_details |-> arg2.error_details,
                                            error |-> error ]
                        /\ UNCHANGED pending_async
  /\ UNCHANGED << optionVars, factoryVars, trackerVars >>

\* The capability completes an asynchronous check: it stores result in the
\* request it was given and calls arg->cb, which is
\* SpiffeChannelSecurityConnector::ServerAuthorizationCheckDone.
ServerAuthorizationCheckDone(result) ==
  /\ side = "client"
  /\ phase = "ready"
  /\ pending_async > 0
  /\ pending_async' = pending_async - 1
  /\ LET arg == [check_arg_ EXCEPT
                   !.status = result.status,
                   !.success = result.success,
                   !.error_details = result.error_details]
         error == ProcessServerAuthorizationCheckResult(arg)
     IN
       /\ check_arg_' = arg
       /\ cb_log' = RunClosure(cb_log, on_peer_checked_, error)
       /\ last_interp' = [ path |-> "async", status |-> arg.status,
                           success |-> arg.success,
                           error_details |-> arg.error_details,
                           error |-> error ]
  /\ UNCHANGED << on_peer_checked_, n_checks, n_authz, reached, authz_request >>
  /\ UNCHANGED << optionVars, factoryVars, trackerVars >>

\* SpiffeServerSecurityConnector::check_peer, call c
ServerCheckPeer(c, alpn_ok) ==
  /\ side = "server"
  /\ phase = "ready"
  /\ c = n_checks + 1
  /\ c \in Checks
  /\ n_checks' = c
  /\ cb_log' = RunClosure(cb_log, c, IF alpn_ok THEN GRPC_ERROR_NONE ELSE AlpnError)
  /\ UNCHANGED << check_arg_, on_peer_checked_, pending_async, n_authz, reached,
                  authz_request, last_interp >>
  /\ UNCHANGED << optionVars, factoryVars, trackerVars >>

(* ---------------------------------------------------------------------- *)
(* Specification of a connector                                            *)
(* ---------------------------------------------------------------------- *)
\* no request was handed to the capability
NoRequest ==
  [ scheduled |-> FALSE, peer_cert |-> NULL, target_name |-> NULL,
    peer_pem |-> NULL, overlapping |-> FALSE ]

NoInterpretation ==
  [ path |-> NULL, status |-> GRPC_STATUS_OK, success |-> FALSE,
    error_details |-> NULL, error |-> GRPC_ERROR_NONE ]

\* a connector as its constructor leaves it
ConnectorConstructed ==
  /\ phase = "constructed"
  /\ key_materials_config_ = << >>
  /\ handshaker_factory_ = 0
  /\ mu_ = 0
  /\ pc = [ a \in Attempts |-> "new" ]
  /\ handshakers = [ a \in Attempts |-> 0 ]
  /\ creating_from = [ a \in Attempts |-> 0 ]
  /\ n_init = 0
  /\ released = {}
  /\ n_reload = 0
  /\ fetch_status = NULL
  /\ last_reload = NoReload
  /\ reload_arg = NoReloadArg
  /\ check_arg_ = ServerAuthorizationCheckArgCreate
  /\ on_peer_checked_ = 0
  /\ pending_async = 0
  /\ n_checks = 0
  /\ n_authz = 0
  /\ reached = {}
  /\ authz_request = NoRequest
  /\ cb_log = [ c \in Checks |-> << >> ]
  /\ last_interp = NoInterpretation

\* options.key_materials_config(): nullptr, a config without key/cert
\* pairs, or a config with one pair
OptionsKeyMaterials ==
  { [ is_null |-> TRUE,  pairs |-> << >> ],
    [ is_null |-> FALSE, pairs |-> << >> ],
    [ is_null |-> FALSE, pairs |-> << 0 >> ] }

\* the credentials options a connector is created with
ConnectorOptions ==
  /\ side \in { "client", "server" }
  /\ credential_reload_config \in BOOLEAN
  /\ options_key_materials \in OptionsKeyMaterials
  /\ server_authorization_check_config \in
       (IF side = "client" THEN BOOLEAN ELSE { FALSE })

InitConnector == TrackerConstructed /\ ConnectorOptions /\ ConnectorConstructed

\* the creation of the connector
NextCreate ==
  \/ \E resp \in ReloadResponses, ok \in BOOLEAN :
       ClientInitializeHandshakerFactory(resp, ok)
  \/ \E resp \in ReloadResponses, ok \in BOOLEAN :
       ServerInitializeHandshakerFactory(resp, ok)

\* connection attempts: add_handshakers calls
NextHandshake ==
  \/ \E a \in Attempts : AddHandshakersLock(a)
  \/ \E a \in Attempts, resp \in ReloadResponses, ok \in BOOLEAN :
       ClientRefreshHandshakerFactory(a, resp, ok)
  \/ \E a \in Attempts, resp \in ReloadResponses, ok \in BOOLEAN :
       ServerRefreshHandshakerFactory(a, resp, ok)
  \/ \E a \in Attempts : ClientCreateHandshaker(a)
  \/ \E a \in Attempts : ServerCreateHandshaker(a)
  \/ \E a \in Attempts, o \in CreateOutcomes : ClientAddHandshakers(a, o)
  \/ \E a \in Attempts, o \in CreateOutcomes : ServerAddHandshakers(a, o)

\* peer checks of completed handshakes
NextCheckPeer ==
  \/ \E c \in Checks, alpn_ok \in BOOLEAN, pem \in PemCerts \cup { NULL },
        async \in BOOLEAN, result \in AuthzResults :
       ClientCheckPeer(c, alpn_ok, pem, async, result)
  \/ \E result \in AuthzResults : ServerAuthorizationCheckDone(result)
  \/ \E c \in Checks, alpn_ok \in BOOLEAN : ServerCheckPeer(c, alpn_ok)

\* The factory's life cycle and the peer checks work on disjoint fields of
\* the connector: SpecHandshake and SpecCheckPeer follow each on its own,
\* SpecConnector both together.
\* add_handshakers and the factory's life cycle do not read the
\* authorization check configuration: it is left unset there
InitHandshake == InitConnector /\ ~server_authorization_check_config

SpecHandshake == InitHandshake /\ [][NextCreate \/ NextHandshake]_vars

SpecCheckPeer == InitConnector /\ [][NextCreate \/ NextCheckPeer]_vars

\* A client connector whose authorization check capability reports an
\* asynchronous completion and never completes a check, while
\* add_handshakers calls are made on the connector.
InitPendingCheck ==
  InitConnector /\ side = "client" /\ server_authorization_check_config

\* check_peer on a peer that passes ALPN and presents a certificate; the
\* capability reports an asynchronous completion (what it would store in
\* the request plays no part then)
CheckPeerStaysPending ==
  \E c \in Checks :
    ClientCheckPeer(c, TRUE, "certA", TRUE, ServerAuthorizationCheckArgCreate)

NextPendingCheck ==
  \/ \E resp \in ReloadResponses, ok \in BOOLEAN :
       ClientInitializeHandshakerFactory(resp, ok)
  \/ CheckPeerStaysPending
  \/ \E a \in Attempts : AddHandshakersLock(a)
  \/ \E a \in Attempts, resp \in ReloadResponses, ok \in BOOLEAN :
       ClientRefreshHandshakerFactory(a, resp, ok)
  \/ \E a \in Attempts : ClientCreateHandshaker(a)
  \/ \E a \in Attempts, o \in CreateOutcomes : ClientAddHandshakers(a, o)

SpecPendingCheck == InitPendingCheck /\ [][NextPendingCheck]_vars

SpecConnector ==
  InitConnector /\ [][NextCreate \/ NextHandshake \/ NextCheckPeer]_vars

(* ---------------------------------------------------------------------- *)
(* Specification of a tracker.  The tracker and the connectors share no    *)
(* state: each is specified with the other left as constructed.            *)
(* ---------------------------------------------------------------------- *)
InitTracker ==
  /\ TrackerConstructed
  /\ ConnectorConstructed
  /\ side = "client"
  /\ credential_reload_config = FALSE
  /\ options_key_materials = [ is_null |-> TRUE, pairs |-> << >> ]
  /\ server_authorization_check_config = FALSE

SpecTracker == InitTracker /\ [][NextTracker]_vars

\* A closure handed to a combiner or to an ExecCtx is run: for every
\* watcher, a delivery that stays possible is eventually made.
FairDelivery ==
  \A w \in Watchers :
    WF_vars(\E i \in 1..Len(closures[w]) : SendNotification(w, i))

SpecTrackerLive == SpecTracker /\ FairDelivery

(* ---------------------------------------------------------------------- *)
(* Properties of the tracker                                               *)
(* ---------------------------------------------------------------------- *)
\* this step schedules exactly one notification, carrying v, for watcher w
NotifiedOnce(w, v) ==
  /\ sched'[w] = Append(sched[w], v)
  /\ Len(closures'[w]) = Len(closures[w]) + 1
  /\ closures'[w][Len(closures'[w])].state = v
  /\ \A i \in 1..Len(closures[w]) : closures'[w][i] = closures[w][i]

\* this step schedules no notification for watcher w
NotNotified(w) == sched'[w] = sched[w] /\ closures'[w] = closures[w]

NoRepeat(s) == \A i \in 1..(Len(s) - 1) : s[i] # s[i + 1]

\* C1: every SetState(v) call leaves state() = v; it schedules exactly one
\* notification (carrying v) for each watcher registered at the call when v
\* differs from the then-current state, and none at all when v equals it.
\* Over a whole sequence of calls: a registered watcher's latest
\* notification is the current state (the last value set) and no watcher
\* is ever notified of the same value twice in a row.
C1_SetStateNotifiesEachChangeOnce ==
  [][ /\ \A v \in ConnectivityState :
           SetState(v) =>
             /\ state_' = v
             /\ \A w \in Watchers :
                  IF w \in watchers_ /\ v # state_
                    THEN NotifiedOnce(w, v)
                    ELSE NotNotified(w)
      /\ \A w \in Watchers :
           /\ NoRepeat(sched'[w])
           /\ (w \in watchers_' /\ sched'[w] # << >>) =>
                sched'[w][Len(sched'[w])] = state_'
    ]_vars

\* a watcher registered at IDLE saw three SetState calls, one of them a
\* no-op, and was notified twice
C1_Witness ==
  /\ nops = 4 /\ added = {1} /\ 1 \in watchers_
  /\ state_ = GRPC_CHANNEL_IDLE
  /\ sched[1] = << GRPC_CHANNEL_READY, GRPC_CHANNEL_IDLE >>

\* C2: SetState(SHUTDOWN) and the tracker's destruction leave the registry
\* empty, and every watcher registered at that moment then has exactly one
\* SHUTDOWN notification scheduled; no watcher ever has two, also when the
\* destruction follows SetState(SHUTDOWN).
C2_ShutdownNotifiedExactlyOnce ==
  [][ /\ (DestroyTracker \/ SetState(GRPC_CHANNEL_SHUTDOWN)) =>
           /\ watchers_' = {}
           /\ \A w \in watchers_ : Count(sched'[w], GRPC_CHANNEL_SHUTDOWN) = 1
      /\ \A w \in Watchers : Count(sched'[w], GRPC_CHANNEL_SHUTDOWN) <= 1
      /\ (state_' = GRPC_CHANNEL_SHUTDOWN \/ ~alive') => watchers_' = {}
    ]_vars

\* the tracker was destroyed after SetState(SHUTDOWN) had notified a
\* registered watcher
C2_Witness ==
  /\ ~alive /\ state_ = GRPC_CHANNEL_SHUTDOWN /\ watchers_ = {}
  /\ sched[1] = << GRPC_CHANNEL_READY, GRPC_CHANNEL_SHUTDOWN >>

\* C3: AddWatcher(initial_state, w) schedules no notification when
\* initial_state equals the current state and exactly one, carrying the
\* current state, when it differs, whatever the tracker's state is.
C3_AddWatcherCatchUp ==
  [][ \A g \in ConnectivityState, w \in Watchers, c \in BOOLEAN :
        AddWatcher(g, w, c) =>
          /\ IF g = state_ THEN NotNotified(w) ELSE NotifiedOnce(w, state_)
          /\ \A x \in Watchers \ {w} : NotNotified(x)
    ]_vars

\* in state SHUTDOWN, watcher 1 was added with a differing guess and
\* watcher 2 with the guess SHUTDOWN
C3_Witness ==
  /\ nops = 3 /\ added = {1, 2} /\ state_ = GRPC_CHANNEL_SHUTDOWN
  /\ sched[1] = << GRPC_CHANNEL_SHUTDOWN >>
  /\ sched[2] = << >>

\* C4: a watcher whose notifications go through a combiner observes them
\* in the order in which they were scheduled, that is in the order of the
\* SetState calls: what it has seen is always a prefix of what was
\* scheduled for it.
C4_CombinerDeliversInOrder ==
  \A w \in Watchers : combiner_[w] => IsPrefix(recv[w], sched[w])

\* two combiner watchers registered at IDLE, SetState(READY), then
\* SetState(SHUTDOWN): both have seen READY then SHUTDOWN
C4_Witness ==
  /\ nops = 4 /\ added = {1, 2} /\ watchers_ = {}
  /\ \A w \in {1, 2} :
       /\ combiner_[w]
       /\ recv[w] = << GRPC_CHANNEL_READY, GRPC_CHANNEL_SHUTDOWN >>

\* C5 (as stated): once state() is SHUTDOWN no call changes it.
C5_ShutdownAbsorbing ==
  [][ state_ = GRPC_CHANNEL_SHUTDOWN => state_' = GRPC_CHANNEL_SHUTDOWN ]_vars

\* C5 (amended): once state() is SHUTDOWN, AddWatcher, RemoveWatcher,
\* SetState(SHUTDOWN) and the delivery of notifications leave it SHUTDOWN;
\* only a SetState call with another value v leaves it, and then state()
\* is v.
C5_ShutdownLeftOnlyBySetState ==
  [][ (state_ = GRPC_CHANNEL_SHUTDOWN /\ state_' # GRPC_CHANNEL_SHUTDOWN) =>
        \E v \in ConnectivityState \ {GRPC_CHANNEL_SHUTDOWN} :
          SetState(v) /\ state_' = v
    ]_vars

\* calls made on a tracker in state SHUTDOWN that left it there
C5_Witness ==
  /\ state_ = GRPC_CHANNEL_SHUTDOWN /\ alive
  /\ nops = 4 /\ added = {1, 2}
  /\ sched[1] = << GRPC_CHANNEL_SHUTDOWN >>

(* ---------------------------------------------------------------------- *)
(* Properties of the connectors                                            *)
(* ---------------------------------------------------------------------- *)
\* C6: the completion closure of every check_peer call that reached the
\* authorization check is run exactly once: never twice, and once no
\* asynchronous check is pending any more it has been run.
C6_CallbackRunExactlyOnce ==
  \A c \in reached :
    /\ Len(cb_log[c]) <= 1
    /\ pending_async = 0 => Len(cb_log[c]) = 1

\* the result table of the authorization check, as documented
ExpectedInterpretation(status, success, error) ==
  IF status = GRPC_STATUS_OK /\ success
    THEN error = GRPC_ERROR_NONE
    ELSE error.kind # "NONE"

\* C7: what the completion closure receives after an authorization check
\* is a function of (status, success, error_details) alone: no error for
\* OK with success, an error carrying error_details in every other case
\* (OK without success, CANCELLED whatever success is, any other status),
\* on the synchronous path of check_peer and on the asynchronous path of
\* ServerAuthorizationCheckDone alike.
C7_InterpretationIsTheSameOnBothPaths ==
  last_interp.path # NULL =>
    /\ last_interp.path \in { "sync", "async" }
    /\ ExpectedInterpretation(last_interp.status, last_interp.success,
                              last_interp.error)
    /\ last_interp.error.kind # "NONE" =>
         last_interp.error.details = last_interp.error_details
    /\ \E c \in reached :
         /\ cb_log[c] # << >>
         /\ cb_log[c][Len(cb_log[c])] = last_interp.error

\* an asynchronous check ended CANCELLED with success set: an error
C7_Witness ==
  /\ last_interp.path = "async"
  /\ last_interp.status = GRPC_STATUS_CANCELLED
  /\ last_interp.success
  /\ last_interp.error.kind = "CANCELLED"

\* the reload capability completed synchronously with status st in this step
ReloadReported(st) ==
  /\ n_reload' = n_reload + 1
  /\ ~last_reload'.async
  /\ last_reload'.status = st

\* this step is a RefreshHandshakerFactory run by some add_handshakers call
RefreshStep == \E a \in Attempts : pc[a] = "refresh" /\ pc'[a] # "refresh"

\* that run returned GRPC_SECURITY_OK
RefreshReturnedOk == \E a \in Attempts : pc[a] = "refresh" /\ pc'[a] = "create"

\* C8: RefreshHandshakerFactory, client or server, builds a factory exactly
\* once (releasing the one it had) when the reload reports NEW; in every
\* other case in which it returns GRPC_SECURITY_OK (UNCHANGED, FAIL or an
\* asynchronous reload with key materials present, no reload capability)
\* the factory pointer is the same and nothing was built or released.
C8_RefreshRebuildsOnlyOnNew ==
  [][ RefreshStep =>
        IF ReloadReported(RELOAD_NEW)
          THEN /\ n_init' = n_init + 1
               /\ handshaker_factory_' \in { 0, n_init' }
               /\ released' = released \cup ({ handshaker_factory_ } \ { 0 })
          ELSE RefreshReturnedOk =>
                 /\ handshaker_factory_' = handshaker_factory_
                 /\ n_init' = n_init
                 /\ released' = released
    ]_vars

\* a refresh rebuilt the factory on NEW, and a later refresh whose reload
\* failed left the new factory in place
C8_Witness ==
  /\ n_init = 2 /\ handshaker_factory_ = 2 /\ released = { 1 }
  /\ n_reload = 3
  /\ last_reload.status = RELOAD_FAIL /\ fetch_status = GRPC_STATUS_OK
  /\ pc[2] = "create"

\* the key materials InitializeHandshakerFactory runs the reload protocol on
MaterialsAtInitialize ==
  IF ~options_key_materials.is_null
    THEN options_key_materials.pairs ELSE key_materials_config_

\* C9: with empty key materials and no reload capability configured,
\* InitializeHandshakerFactory fails: the reload protocol returns
\* FAILED_PRECONDITION, no capability is invoked and no factory is built.
C9_InitializeFailsWithoutMaterialsAndReload ==
  [][ ( /\ phase = "constructed" /\ phase' # "constructed"
        /\ ~credential_reload_config
        /\ MaterialsAtInitialize = << >> ) =>
        /\ fetch_status' = GRPC_STATUS_FAILED_PRECONDITION
        /\ phase' = "failed"
        /\ n_reload' = n_reload
        /\ n_init' = 0 /\ handshaker_factory_' = 0
    ]_vars

\* a connector whose creation failed that way
C9_Witness ==
  /\ phase = "failed"
  /\ ~credential_reload_config
  /\ fetch_status = GRPC_STATUS_FAILED_PRECONDITION
  /\ key_materials_config_ = << >>
  /\ n_init = 0

\* C10: when the reload capability completes synchronously with FAIL, the
\* reload protocol returns INTERNAL if the key materials were empty; if
\* they were not it returns OK, the key materials are unchanged, a refresh
\* returns GRPC_SECURITY_OK with the factory it had and the initialization
\* builds the factory from the materials it had.
C10_ReloadFailKeepsExistingMaterials ==
  [][ ReloadReported(RELOAD_FAIL) =>
        LET before == IF phase = "constructed"
                        THEN MaterialsAtInitialize ELSE key_materials_config_
        IN IF before = << >>
             THEN /\ fetch_status' = GRPC_STATUS_INTERNAL
                  /\ n_init' = n_init
                  /\ phase = "constructed" => phase' = "failed"
             ELSE /\ fetch_status' = GRPC_STATUS_OK
                  /\ key_materials_config_' = before
                  /\ RefreshStep =>
                       /\ RefreshReturnedOk
                       /\ handshaker_factory_' = handshaker_factory_
                       /\ n_init' = n_init
                  /\ phase = "constructed" => n_init' = n_init + 1
    ]_vars

\* a refresh whose reload failed left the connector with its materials and
\* its first factory, and add_handshakers goes on to create a handshaker
C10_Witness ==
  /\ phase = "ready"
  /\ last_reload.status = RELOAD_FAIL /\ ~last_reload.async
  /\ fetch_status = GRPC_STATUS_OK
  /\ handshaker_factory_ = 1 /\ released = {}
  /\ pc[1] = "create"

\* the reload capability reported in this step that it will complete
\* asynchronously
ReloadWentAsync == n_reload' = n_reload + 1 /\ last_reload'.async

\* the key materials the reload protocol of this step starts from
MaterialsBeforeFetch ==
  IF phase = "constructed" THEN MaterialsAtInitialize ELSE key_materials_config_

\* C11: when the reload capability reports that it will complete
\* asynchronously, the reload protocol returns UNIMPLEMENTED if the key
\* materials are empty (the initialization then fails without building a
\* factory) and OK otherwise; in the OK case RefreshHandshakerFactory
\* returns GRPC_SECURITY_OK with the factory it had: nothing is built or
\* released.
C11_AsyncReloadIsBestEffort ==
  [][ ReloadWentAsync =>
        IF MaterialsBeforeFetch = << >>
          THEN /\ fetch_status' = GRPC_STATUS_UNIMPLEMENTED
               /\ n_init' = n_init /\ handshaker_factory_' = handshaker_factory_
               /\ phase = "constructed" => phase' = "failed"
               /\ RefreshStep => ~RefreshReturnedOk
          ELSE /\ fetch_status' = GRPC_STATUS_OK
               /\ RefreshStep =>
                    /\ RefreshReturnedOk
                    /\ handshaker_factory_' = handshaker_factory_
                    /\ n_init' = n_init
                    /\ released' = released
    ]_vars

\* a refresh whose reload went asynchronous kept the first factory, and
\* add_handshakers goes on to create a handshaker from it
C11_Witness ==
  /\ phase = "ready"
  /\ last_reload.async /\ n_reload = 2
  /\ fetch_status = GRPC_STATUS_OK
  /\ handshaker_factory_ = 1 /\ n_init = 1 /\ released = {}
  /\ pc[1] = "create"

\* C12: a client check_peer call on a peer that passes ALPN and has no PEM
\* certificate property, with an authorization check capability
\* configured, runs its completion closure once, with the missing-property
\* error, and does not invoke the capability: the request, the stored
\* closure and the pending checks are untouched.  No later step runs that
\* closure again.
C12_MissingPemFailsWithoutCheck ==
  [][ /\ \A c \in { n_checks + 1 } \cap Checks :
           \* the capability is not reached: what it would do plays no part
           ( /\ server_authorization_check_config
             /\ ClientCheckPeer(c, TRUE, NULL, FALSE,
                                ServerAuthorizationCheckArgCreate) ) =>
               /\ cb_log'[c] = << MissingPemError >>
               /\ n_authz' = n_authz
               /\ pending_async' = pending_async
               /\ check_arg_' = check_arg_
               /\ on_peer_checked_' = on_peer_checked_
               /\ c \notin reached'
      /\ \A c \in Checks :
           (cb_log[c] # << >> /\ cb_log[c][1] = MissingPemError) =>
             cb_log'[c] = cb_log[c]
    ]_vars

\* the first check went to the capability and is pending; the second
\* one, on a peer without PEM certificate, failed at once; then the first
\* completed
C12_Witness ==
  /\ server_authorization_check_config
  /\ n_checks = 2 /\ n_authz = 1 /\ pending_async = 0
  /\ on_peer_checked_ = 1
  /\ cb_log[2] = << MissingPemError >>
  /\ Len(cb_log[1]) = 1
  /\ last_interp.path = "async"

\* C13: every add_handshakers call, client or server, adds at most one
\* handshaker to its handshake manager: none when RefreshHandshakerFactory
\* does not return GRPC_SECURITY_OK, none when the creation of the
\* handshaker fails, exactly one when both succeed; a call that has
\* returned adds nothing more.
C13_AtMostOneHandshakerPerCall ==
  [][ \A a \in Attempts :
        /\ handshakers'[a] \in { 0, 1 }
        /\ (pc[a] = "refresh" /\ pc'[a] = "done") => handshakers'[a] = 0
        /\ pc'[a] \in { "new", "refresh", "create", "creating" } =>
             handshakers'[a] = 0
        /\ \A o \in CreateOutcomes :
             (ClientAddHandshakers(a, o) \/ ServerAddHandshakers(a, o)) =>
               /\ pc'[a] = "done"
               /\ handshakers'[a] =
                    IF CreateHandshakerResult(creating_from[a], o = "ok")
                      THEN 1 ELSE 0
        /\ pc[a] = "done" => handshakers'[a] = handshakers[a]
    ]_vars

\* three calls have returned: the first added its handshaker, the second
\* failed in the refresh (the new factory could not be built), the third
\* could not create a handshaker
C13_Witness ==
  /\ \A a \in Attempts : pc[a] = "done"
  /\ handshakers[1] = 1 /\ handshakers[2] = 0 /\ handshakers[3] = 0
  /\ n_init = 2 /\ handshaker_factory_ = 0 /\ released = { 1 }
  /\ phase = "ready"

\* the add_handshakers calls that are inside RefreshHandshakerFactory
InRefresh == { a \in Attempts : pc[a] = "refresh" }

\* this step calls the reload capability, writes the key materials or
\* swaps the factory
TouchesFactoryState ==
  \/ n_reload' # n_reload
  \/ key_materials_config_' # key_materials_config_
  \/ n_init' # n_init
  \/ handshaker_factory_' # handshaker_factory_
  \/ released' # released

\* C14: the executions of InitializeHandshakerFactory and
\* RefreshHandshakerFactory on one connector exclude each other: at most
\* one call is inside at any time and it holds mu_; the reload capability
\* is called and the key materials and the factory are written only by
\* that call (or by the initialization, which runs before any other call
\* can start), so at most one reload and one rebuild are in flight.
C14_FactoryUpdatesAreMutuallyExclusive ==
  [][ /\ Cardinality(InRefresh') <= 1
      /\ \A a \in InRefresh' : mu_' = a
      /\ (phase' = "constructed") => (InRefresh' = {} /\ mu_' = 0)
      /\ TouchesFactoryState =>
           \/ phase = "constructed" /\ mu_ = 0 /\ InRefresh = {}
           \/ \E a \in Attempts :
                /\ InRefresh = { a } /\ mu_ = a
                /\ pc'[a] # "refresh" \/ phase' = "aborted"
      /\ n_reload' \in { n_reload, n_reload + 1 }
      /\ n_init' \in { n_init, n_init + 1 }
    ]_vars

\* one call is inside RefreshHandshakerFactory while two others, which
\* started earlier, are past it; the factory has been rebuilt once
C14_Witness ==
  /\ mu_ = 3 /\ pc[3] = "refresh"
  /\ pc[1] = "creating" /\ pc[2] = "create"
  /\ n_init = 2 /\ released = { 1 }

\* C15: the factory from which an add_handshakers call is creating a
\* handshaker (outside the lock) has not been released by another call's
\* RefreshHandshakerFactory / ReplaceHandshakerFactory.
C15_FactoryNotReleasedWhileInUse ==
  \A a \in Attempts :
    (pc[a] = "creating" /\ creating_from[a] # 0) =>
      creating_from[a] \notin released

\* this step ran ReplaceHandshakerFactory up to the construction of a factory
ReplaceStep == n_init' = n_init + 1

C17_SerializedRequestCarriesOwnPeer ==
  (authz_request.scheduled /\ ~authz_request.overlapping) =>
    /\ authz_request.peer_cert = authz_request.peer_pem
    /\ authz_request.target_name = TargetName

(* ---------------------------------------------------------------------- *)
(* Further properties of the tracker                                       *)
(* ---------------------------------------------------------------------- *)
\* this step hands no new notification for watcher w to a combiner or an
\* ExecCtx (it may deliver one that was scheduled before)
NothingScheduled(w) ==
  /\ sched'[w] = sched[w]
  /\ \/ closures'[w] = closures[w]
     \/ \E i \in 1..Len(closures[w]) : closures'[w] = RemoveAt(closures[w], i)

\* C18: a watcher passed to AddWatcher while the state is SHUTDOWN is not
\* inserted into the registry and gets its catch-up notification (one
\* SHUTDOWN notification, or none if its initial_state was SHUTDOWN); a
\* watcher that was handed to the tracker and is not in the registry never
\* gets into it and no step schedules a notification for it, whatever
\* SetState calls and destruction follow.
C18_WatcherAddedInShutdownIsOrphaned ==
  [][ /\ \A g \in ConnectivityState, w \in Watchers, c \in BOOLEAN :
           (AddWatcher(g, w, c) /\ state_ = GRPC_CHANNEL_SHUTDOWN) =>
             /\ w \notin watchers_'
             /\ watchers_' = watchers_
             /\ sched'[w] = IF g = GRPC_CHANNEL_SHUTDOWN
                              THEN << >> ELSE << GRPC_CHANNEL_SHUTDOWN >>
      /\ \A w \in added \ watchers_ :
           w \notin watchers_' /\ NothingScheduled(w)
    ]_vars

\* watcher 1 was added in state SHUTDOWN; SetState(READY) and the
\* destruction of the tracker followed: it has its catch-up notification
\* and no other
C18_Witness ==
  /\ ~alive /\ nops = 4 /\ added = {1}
  /\ state_ = GRPC_CHANNEL_READY
  /\ sched[1] = << GRPC_CHANNEL_SHUTDOWN >>

\* C19: RemoveWatcher(w) schedules no notification, for w or any other
\* watcher, leaves state() as it is and removes w and nothing else from
\* the registry; SetState and the destruction of the tracker schedule
\* notifications for registered watchers only, so none for w afterwards.
C19_RemoveWatcherIsSilent ==
  [][ /\ \A w \in Watchers :
           RemoveWatcher(w) =>
             /\ watchers_' = watchers_ \ {w}
             /\ state_' = state_
             /\ sched' = sched /\ closures' = closures /\ recv' = recv
      /\ (DestroyTracker \/ \E v \in ConnectivityState : SetState(v)) =>
           \A w \in Watchers \ watchers_ : NotNotified(w)
      /\ \A w \in Watchers : (w \in watchers_' /\ w \notin watchers_) =>
           \E g \in ConnectivityState, c \in BOOLEAN : AddWatcher(g, w, c)
    ]_vars

\* watcher 1 was registered at IDLE (with another guess), then removed;
\* SetState(READY) and the destruction followed without notifying it
C19_Witness ==
  /\ ~alive /\ nops = 4 /\ added = {1}
  /\ state_ = GRPC_CHANNEL_READY
  /\ sched[1] = << GRPC_CHANNEL_IDLE >>

\* C20: the SHUTDOWN notification is the last one scheduled for a watcher:
\* SetState(SHUTDOWN) notifies every registered watcher of SHUTDOWN and
\* drops it; a watcher that has a SHUTDOWN notification is not in the
\* registry (of a live tracker) and no later step, SetState with any
\* value included, schedules another notification for it.
C20_ShutdownIsTheLastNotification ==
  [][ /\ SetState(GRPC_CHANNEL_SHUTDOWN) =>
           \A w \in watchers_ :
             /\ state_ # GRPC_CHANNEL_SHUTDOWN =>
                  sched'[w] = Append(sched[w], GRPC_CHANNEL_SHUTDOWN)
             /\ w \notin watchers_'
      /\ \A w \in Watchers :
           Count(sched[w], GRPC_CHANNEL_SHUTDOWN) > 0 =>
             /\ w \notin watchers_ /\ w \notin watchers_'
             /\ NothingScheduled(w)
             /\ sched[w][Len(sched[w])] = GRPC_CHANNEL_SHUTDOWN
    ]_vars

\* watcher 1 was registered and notified of SHUTDOWN; two SetState calls
\* with other values followed and did not notify it
C20_Witness ==
  /\ alive /\ nops = 4 /\ added = {1}
  /\ state_ = GRPC_CHANNEL_IDLE
  /\ sched[1] = << GRPC_CHANNEL_IDLE, GRPC_CHANNEL_SHUTDOWN >>

\* C21: a client check_peer call on a peer that fails the ALPN check runs
\* its completion closure once, with the ALPN error, and touches neither
\* the authorization check capability nor the reusable request nor the
\* stored completion closure, whatever the peer's certificate and the
\* configuration are.  No later step runs that closure again.
C21_AlpnFailureCompletesAtOnce ==
  [][ /\ \A c \in { n_checks + 1 } \cap Checks, pem \in PemCerts \cup { NULL } :
           \* the capability is not reached: what it would do plays no part
           ClientCheckPeer(c, FALSE, pem, FALSE, ServerAuthorizationCheckArgCreate) =>
             /\ cb_log'[c] = << AlpnError >>
             /\ n_authz' = n_authz
             /\ pending_async' = pending_async
             /\ check_arg_' = check_arg_
             /\ on_peer_checked_' = on_peer_checked_
             /\ c \notin reached'
      /\ \A c \in Checks :
           (cb_log[c] # << >> /\ cb_log[c][1] = AlpnError) =>
             cb_log'[c] = cb_log[c]
    ]_vars

\* the first check is pending at the capability; the second one, on a
\* peer that fails ALPN, completed at once and left the request and the
\* stored closure of the first as they were
C21_Witness ==
  /\ server_authorization_check_config
  /\ n_checks = 2 /\ n_authz = 1 /\ pending_async = 1
  /\ on_peer_checked_ = 1
  /\ check_arg_.peer_cert = "certA"
  /\ cb_log[1] = << >>
  /\ cb_log[2] = << AlpnError >>

\* C25: the assertion of ReplaceHandshakerFactory that the key materials
\* hold at least one key/certificate pair never fails, whatever the reload
\* capability does.
C25_ReplaceAssertionHolds == phase # "aborted"

\* this step runs the reload protocol (TlsFetchKeyMaterials), from
\* InitializeHandshakerFactory or from RefreshHandshakerFactory
FetchStep == (phase = "constructed" /\ phase' # "constructed") \/ RefreshStep

\* C23: every run of the reload protocol that invokes the reload
\* capability creates one request object and, before it returns, deletes
\* it once and calls its destroy_context hook once if the capability set
\* one (not at all otherwise), whether the capability reported an
\* asynchronous completion or completed with UNCHANGED, NEW or FAIL and
\* whatever status the protocol returns; a run without a configured
\* capability creates no request.
C23_ReloadRequestReleasedOnce ==
  [][ FetchStep =>
        IF credential_reload_config
          THEN /\ n_reload' = n_reload + 1
               /\ reload_arg'.created = 1
               /\ reload_arg'.deleted = 1
               /\ reload_arg'.destroy_context_calls =
                    IF last_reload'.destroy_context THEN 1 ELSE 0
          ELSE /\ n_reload' = n_reload
               /\ reload_arg' = NoReloadArg
    ]_vars

\* a refresh whose capability set a destroy_context hook and reported an
\* asynchronous completion has returned: the request is gone and the hook
\* was called
C23_Witness ==
  /\ phase = "ready" /\ n_reload = 2
  /\ last_reload.async /\ last_reload.destroy_context
  /\ fetch_status = GRPC_STATUS_OK
  /\ reload_arg = [ created |-> 1, deleted |-> 1, destroy_context_calls |-> 1 ]

\* the scheduled notifications of watcher w that carry state v and have
\* not run yet
PendingWith(w, v) ==
  Cardinality({ i \in 1..Len(closures[w]) : closures[w][i].state = v })

\* every notification scheduled for w has been delivered or is pending,
\* once, with the state it was scheduled with
EachScheduledOnce(w) ==
  \A v \in ConnectivityState :
    Count(recv[w], v) + PendingWith(w, v) = Count(sched[w], v)

\* C24: every notification scheduled by Notify is delivered to its watcher
\* exactly once and carries the state captured when it was scheduled:
\* at any time the deliveries made and the pending ones are together the
\* notifications scheduled, value by value, and eventually none is pending
\* any more, whatever SetState, RemoveWatcher and destruction did in
\* between.
C24_EveryNotificationDeliveredOnce ==
  /\ [](\A w \in Watchers : EachScheduledOnce(w))
  /\ <>[](\A w \in Watchers : closures[w] = << >> /\ EachScheduledOnce(w))

\* watcher 1 (without combiner) was notified of READY and of CONNECTING
\* and then removed; CONNECTING was delivered first, READY after it, when
\* the tracker's state was no longer READY and the watcher was gone
C24_Witness ==
  /\ nops = 4 /\ added = {1} /\ watchers_ = {}
  /\ ~combiner_[1]
  /\ state_ = GRPC_CHANNEL_CONNECTING
  /\ sched[1] = << GRPC_CHANNEL_READY, GRPC_CHANNEL_CONNECTING >>
  /\ recv[1] = << GRPC_CHANNEL_CONNECTING, GRPC_CHANNEL_READY >>
  /\ closures[1] = << >>

\* C22: mu_ is not held while an asynchronous authorization check is
\* pending: mu_ is only ever held by an add_handshakers call that is inside
\* RefreshHandshakerFactory, never on behalf of a check; and while checks
\* are pending that the capability never completes, no add_handshakers
\* call is stuck: a call inside RefreshHandshakerFactory can finish it, a
\* new call can take the lock as soon as it is free, and a call past the
\* refresh can go on to create its handshaker and return.
C22_PendingCheckHoldsNoLock ==
  /\ mu_ # 0 => (mu_ \in Attempts /\ pc[mu_] = "refresh")
  /\ (pending_async > 0 /\ phase = "ready") =>
       \A a \in Attempts :
         /\ pc[a] = "refresh" =>
              /\ mu_ = a
              /\ ENABLED (\E resp \in ReloadResponses, ok \in BOOLEAN :
                            ClientRefreshHandshakerFactory(a, resp, ok))
         /\ (pc[a] = "new" /\ mu_ = 0 /\ \A b \in Attempts : b < a => pc[b] # "new") =>
              ENABLED AddHandshakersLock(a)
         /\ pc[a] = "create" => ENABLED ClientCreateHandshaker(a)
         /\ pc[a] = "creating" =>
              ENABLED (\E o \in CreateOutcomes : ClientAddHandshakers(a, o))

\* two checks are pending at the capability; three add_handshakers calls
\* went through RefreshHandshakerFactory meanwhile (the second rebuilt the
\* factory) and returned
C22_Witness ==
  /\ pending_async = 2 /\ n_checks = 2
  /\ mu_ = 0 /\ \A a \in Attempts : pc[a] = "done"
  /\ n_reload > n_checks
  /\ handshaker_factory_ = 2 /\ released = { 1 }
  /\ phase = "ready"

====
